---- MODULE Spec2Model ----
(***************************************************************************)
(* Model of the two ENB techs of enb-bemxjst-i18n (techs/bemhtml-i18n.js   *)
(* and techs/bemtree-i18n.js).  One behaviour is one task instance: the    *)
(* configuration step of the build flow, the builder, the two promise      *)
(* branches joined by vow.all, the spread callback that appends the        *)
(* oninit entry and calls the template compiler, and finally the run of    *)
(* the compiled bundle's oninit hook.                                      *)
(***************************************************************************)
EXTENDS Integers, Sequences, FiniteSets, TLC

\* ------------------------------------------------------------------ bounds
MaxLen == 3
NumPaths == 2
NumVersions == 2

Paths == 1..NumPaths
Techs == {"bemhtml", "bemtree"}
Langs == {"en", "ru"}
NoLang == "<undefined>"
NoClass == "<undefined>"
Classes == {"ExportsBEMContext", "ContextBEMContext"}
Members == {"i18n", "apply", "extend"}

\* ------------------------------------------------------- opaque JS values
\* every value is a record, so that any two values can be compared
Undefined == [tag |-> "undefined"]
Val(t, n) == [tag |-> t, id |-> n]

\* what keysets.read yields for a well-formed `?.keysets.{lang}.js` file
KeysetsModule(v, c, k, x) ==
    [tag |-> "module", version |-> Val("version", v), core |-> Val("core", c),
     keysets |-> Val("keysets", k), extra |-> Val("extra", x)]
Garbage == [tag |-> "garbage"]
Unreadable == [tag |-> "unreadable"]

KeysetsFiles ==
    {Garbage, Unreadable}
      \cup {KeysetsModule(v, c, k, 1) : v \in 1..NumVersions, c \in 1..2, k \in 1..2}

FileLists == UNION {[1..n -> [fullname : Paths]] : n \in 0..MaxLen}

VARIABLES
    tech,            \* which of the two techs this task is
    lang,            \* option `lang` (NoLang when it was not given)
    fileList,        \* the FileList handed to the builder
    fsReadable,      \* file system: which template paths can be read
    keysetsFile,     \* file system: what the keysets file holds
    compilerOk,      \* whether the template compiler accepts the sources
    phase,           \* "declared", "configError", "configured", "building", "done"
    outcome,         \* "pending", "mock", "bundle", "failed"
    error,           \* the error the task failed with
    bundle,          \* what the builder's promise resolved with
    filenames,       \* the file names _readFiles was called with
    reads,           \* per file name: "pending", "ok", "err"
    srcBranch,       \* promise of _getBEMHTMLSources / _getBEMTREESources
    srcResult,       \* its value
    i18nBranch,      \* promise of _compileI18N
    keysetsSource,   \* what keysets.read resolved with
    i18nCode,        \* value of the _compileI18N promise
    firstRejected,   \* the rejection vow.all saw first
    joinState,       \* promise of vow.all
    compileState,    \* promise of _compileBEMXJST
    builderCalls, mockCalls, keysetReadCalls,
    i18nCalls,       \* arguments of every compileI18N call
    compilerCalls,   \* arguments of every _compileBEMXJST call
    protos,          \* prototype objects of the BEMContext classes
    initArgs,        \* the (exports, context) the oninit hook was run with
    initRun          \* "no", "ok", "throw"

inputs == <<tech, lang, fileList, fsReadable, keysetsFile, compilerOk>>
task == <<phase, outcome, error, bundle>>
srcVars == <<filenames, reads, srcBranch, srcResult>>
i18nVars == <<i18nBranch, keysetsSource, i18nCode>>
joinVars == <<firstRejected, joinState, compileState>>
calls == <<builderCalls, mockCalls, keysetReadCalls, i18nCalls, compilerCalls>>
runtime == <<protos, initArgs, initRun>>
vars == <<inputs, task, srcVars, i18nVars, joinVars, calls, runtime>>

\* ------------------------------------------------------- pure helpers
RECURSIVE UniqueFrom(_, _, _)
UniqueFrom(list, i, acc) ==
    IF i > Len(list) THEN acc
    ELSE LET filename == list[i].fullname IN
         IF \E j \in 1..Len(acc) : acc[j] = filename
            THEN UniqueFrom(list, i + 1, acc)
            ELSE UniqueFrom(list, i + 1, Append(acc, filename))

\* inherited from the bem-xjst tech: file names of the list, each once
_getUniqueFilenames(list) == UniqueFrom(list, 1, <<>>)

AllFilenames(list) == [i \in 1..Len(list) |-> list[i].fullname]

\* the file names _getBEMHTMLSources asks _readFiles for
_getSourcesFilenames(list) == _getUniqueFilenames(list)

FileContents(p) == Val("file", p)

\* inherited _readFiles: one {path, contents} per file name, in order
_readFiles(names) == [i \in 1..Len(names) |-> [path |-> names[i], contents |-> FileContents(names[i])]]

\* inherited _processSources: keeps the entries and their order
_processSources(sources) == sources

\* keysets.parse of enb-bem-i18n
ParseOk(raw) == raw.tag = "module"
parse(raw) == [core |-> raw.core, keysets |-> raw.keysets, version |-> raw.version, extra |-> raw.extra]

I18NArgsRaw(source, language) ==
    LET parsed == parse(source) IN
    [core |-> parsed.core, keysets |-> source,
     opts |-> [version |-> parsed.version, language |-> language]]

I18NArgsNoCore(source, language) ==
    LET parsed == parse(source) IN
    [core |-> Undefined, keysets |-> parsed.keysets,
     opts |-> [version |-> parsed.version, language |-> language]]

\* the arguments _compileI18N passes to compileI18N
I18NArgs(source, language) ==
    LET parsed == parse(source) IN
    [core |-> parsed.core, keysets |-> parsed.keysets,
     opts |-> [version |-> parsed.version, language |-> language]]

\* compileI18N of enb-bem-i18n: the generated code is a function of its arguments
compileI18N(args) == [tag |-> "i18ncode", core |-> args.core, keysets |-> args.keysets, opts |-> args.opts]

InitEntryContextFirst(code) ==
    [contents |-> [tag |-> "oninit", select |-> <<"context", "exports">>,
                   member |-> "i18n", value |-> code]]

\* the synthetic entry: oninit(function(exports, context) { ... })
InitEntry(code) ==
    [contents |-> [tag |-> "oninit", select |-> <<"exports", "context">>,
                   member |-> "i18n", value |-> code]]

SourcesInitFirst(sources, code) == <<InitEntry(code)>> \o sources

\* `sources` of the spread callback
Sources(sources, code) == sources \o <<InitEntry(code)>>

VowAnyFulfilled(a, b) == a = "fulfilled" \/ b = "fulfilled"

\* vow.all is fulfilled when every promise is
VowAllFulfilled(a, b) == a = "fulfilled" /\ b = "fulfilled"

VowAllSettledRejected(a, b) ==
    /\ a \in {"fulfilled", "rejected"} /\ b \in {"fulfilled", "rejected"}
    /\ (a = "rejected" \/ b = "rejected")

\* vow.all is rejected as soon as one promise is
VowAllRejected(a, b) == a = "rejected" \/ b = "rejected"

\* the class the hook picks: exports.BEMContext || context.BEMContext
SelectBEMContext(entry, exports, context) ==
    LET first == IF entry.contents.select[1] = "exports" THEN exports ELSE context
        second == IF entry.contents.select[2] = "exports" THEN exports ELSE context
    IN IF first # NoClass THEN first ELSE second

\* BEMContext.prototype.i18n = <code>
RunOnInit(entry, exports, context, ps) ==
    LET cls == SelectBEMContext(entry, exports, context) IN
    [ps EXCEPT ![cls][entry.contents.member] = entry.contents.value]

InitialProtos == [c \in Classes |-> [m \in Members |-> IF m = "i18n" THEN Undefined ELSE Val(c, 0)]]

Mock(t) == IF t = "bemhtml" THEN <<[contents |-> Val("mockBEMHTML", 0)]>>
           ELSE <<[contents |-> Val("mockBEMTREE", 0)]>>
NoBundle == <<>>

\* ------------------------------------------------------------------ Init
Init ==
    /\ tech \in Techs
    /\ lang \in Langs \cup {NoLang}
    /\ fileList \in FileLists
    /\ fsReadable \in [Paths -> BOOLEAN]
    /\ keysetsFile \in KeysetsFiles
    /\ compilerOk \in BOOLEAN
    /\ phase = "declared" /\ outcome = "pending" /\ error = "none" /\ bundle = NoBundle
    /\ filenames = <<>> /\ reads = <<>> /\ srcBranch = "idle" /\ srcResult = <<>>
    /\ i18nBranch = "idle" /\ keysetsSource = Undefined /\ i18nCode = Undefined
    /\ firstRejected = "none" /\ joinState = "none" /\ compileState = "none"
    /\ builderCalls = 0 /\ mockCalls = 0 /\ keysetReadCalls = 0
    /\ i18nCalls = <<>> /\ compilerCalls = <<>>
    /\ protos = InitialProtos
    /\ initArgs = <<NoClass, NoClass>>
    /\ initRun = "no"

\* --------------------------------------------------------------- actions
ConfigureUnchecked ==
    /\ phase = "declared"
    /\ phase' = "configured"
    /\ UNCHANGED <<inputs, outcome, error, bundle, srcVars, i18nVars, joinVars, calls, runtime>>

\* build flow configuration: .defineRequiredOption('lang')
Configure ==
    /\ phase = "declared"
    /\ IF lang = NoLang
          THEN phase' = "configError" /\ outcome' = "failed" /\ error' = "MissingOption"
          ELSE phase' = "configured" /\ UNCHANGED <<outcome, error>>
    /\ UNCHANGED <<inputs, bundle, srcVars, i18nVars, joinVars, calls, runtime>>

\* return this._mockBEMHTML();
ReturnMock ==
    /\ phase' = "done" /\ outcome' = "mock" /\ bundle' = Mock(tech)
    /\ mockCalls' = mockCalls + 1
    /\ UNCHANGED <<error, srcVars, joinVars>>

\* this._getBEMHTMLSources(fileList): the reads of all file names are started
StartSources ==
    /\ filenames' = _getSourcesFilenames(fileList)
    /\ reads' = [i \in 1..Len(filenames') |-> "pending"]
    /\ srcBranch' = IF filenames' = <<>> THEN "fulfilled" ELSE "pending"
    /\ srcResult' = <<>>

\* this._compileI18N(keysetsFilename): keysets.read is called
StartI18N ==
    /\ i18nBranch' = "reading"
    /\ keysetReadCalls' = keysetReadCalls + 1
    /\ UNCHANGED <<keysetsSource, i18nCode>>

\* vow.all([...]).spread(...)
StartBranches ==
    /\ StartSources
    /\ StartI18N
    /\ joinState' = "pending"
    /\ phase' = "building"
    /\ UNCHANGED <<outcome, error, bundle, firstRejected, compileState, mockCalls>>

BuilderNoShortCircuit ==
    /\ phase = "configured"
    /\ builderCalls' = builderCalls + 1
    /\ StartBranches
    /\ UNCHANGED <<inputs, i18nCalls, compilerCalls, runtime>>

BuilderKeysetFirst ==
    /\ phase = "configured"
    /\ builderCalls' = builderCalls + 1
    /\ IF Len(fileList) = 0
          THEN ReturnMock /\ StartI18N
          ELSE StartBranches
    /\ UNCHANGED <<inputs, i18nCalls, compilerCalls, runtime>>

\* .builder(function (fileList, keysetsFilename) { ... })
Builder ==
    /\ phase = "configured"
    /\ builderCalls' = builderCalls + 1
    /\ IF Len(fileList) = 0
          THEN ReturnMock /\ UNCHANGED <<i18nVars, keysetReadCalls>>
          ELSE StartBranches
    /\ UNCHANGED <<inputs, i18nCalls, compilerCalls, runtime>>

\* one vfs.read of _readFiles settles
SourceFileRead(i) ==
    /\ i \in 1..Len(reads)
    /\ reads[i] = "pending"
    /\ reads' = [reads EXCEPT ![i] = IF fsReadable[filenames[i]] THEN "ok" ELSE "err"]
    /\ IF srcBranch = "pending" /\ reads'[i] = "err"
          THEN /\ srcBranch' = "rejected"
               /\ firstRejected' = IF firstRejected = "none" THEN "FileReadError" ELSE firstRejected
               /\ UNCHANGED srcResult
          ELSE IF srcBranch = "pending" /\ \A j \in 1..Len(reads') : reads'[j] = "ok"
          THEN /\ srcBranch' = "fulfilled"
               /\ srcResult' = _processSources(_readFiles(filenames))
               /\ UNCHANGED firstRejected
          ELSE UNCHANGED <<srcBranch, srcResult, firstRejected>>
    /\ UNCHANGED <<inputs, task, filenames, i18nVars, joinState, compileState, calls, runtime>>

\* keysets.read settles
KeysetsRead ==
    /\ i18nBranch = "reading"
    /\ IF keysetsFile = Unreadable
          THEN /\ i18nBranch' = "rejected"
               /\ firstRejected' = IF firstRejected = "none" THEN "FileReadError" ELSE firstRejected
               /\ UNCHANGED keysetsSource
          ELSE /\ i18nBranch' = "read"
               /\ keysetsSource' = keysetsFile
               /\ UNCHANGED firstRejected
    /\ UNCHANGED <<inputs, task, srcVars, i18nCode, joinState, compileState, calls, runtime>>

\* the .then callback of _compileI18N
CompileI18NThen ==
    /\ i18nBranch = "read"
    /\ IF ParseOk(keysetsSource)
          THEN /\ i18nCalls' = Append(i18nCalls, I18NArgs(keysetsSource, lang))
               /\ i18nCode' = compileI18N(I18NArgs(keysetsSource, lang))
               /\ i18nBranch' = "fulfilled"
               /\ UNCHANGED firstRejected
          ELSE /\ i18nBranch' = "rejected"
               /\ firstRejected' = IF firstRejected = "none" THEN "KeysetParseError" ELSE firstRejected
               /\ UNCHANGED <<i18nCalls, i18nCode>>
    /\ UNCHANGED <<inputs, task, srcVars, keysetsSource, joinState, compileState,
                   builderCalls, mockCalls, keysetReadCalls, compilerCalls, runtime>>

\* vow.all rejects: the builder's promise is rejected, spread's callback is skipped
JoinReject ==
    /\ joinState = "pending"
    /\ VowAllRejected(srcBranch, i18nBranch)
    /\ joinState' = "rejected"
    /\ phase' = "done" /\ outcome' = "failed" /\ error' = firstRejected
    /\ UNCHANGED <<inputs, bundle, srcVars, i18nVars, firstRejected, compileState, calls, runtime>>

NoMode == "<undefined>"

\* second argument of _compileBEMXJST: absent in bemhtml-i18n, 'bemtree' in bemtree-i18n
CompilerMode(t) == IF t = "bemtree" THEN "bemtree" ELSE NoMode

\* vow.all fulfils: the spread callback builds `sources` and calls _compileBEMXJST
JoinFulfill ==
    /\ joinState = "pending"
    /\ VowAllFulfilled(srcBranch, i18nBranch)
    /\ joinState' = "fulfilled"
    /\ compilerCalls' = Append(compilerCalls, [sources |-> Sources(srcResult, i18nCode), mode |-> CompilerMode(tech)])
    /\ compileState' = "pending"
    /\ UNCHANGED <<inputs, task, srcVars, i18nVars, firstRejected,
                   builderCalls, mockCalls, keysetReadCalls, i18nCalls, runtime>>

\* _compileBEMXJST settles and with it the builder's promise
CompileDone ==
    /\ compileState = "pending"
    /\ phase' = "done"
    /\ IF compilerOk
          THEN /\ compileState' = "fulfilled" /\ outcome' = "bundle"
               /\ bundle' = compilerCalls[Len(compilerCalls)].sources
               /\ UNCHANGED error
          ELSE /\ compileState' = "rejected" /\ outcome' = "failed"
               /\ error' = "CompilationError"
               /\ UNCHANGED bundle
    /\ UNCHANGED <<inputs, srcVars, i18nVars, firstRejected, joinState, calls, runtime>>

IsHook(entry) == entry.contents.tag = "oninit"

\* the compiled bundle is loaded: its oninit hook runs with (exports, context)
OnInit(exports, context) ==
    /\ outcome = "bundle"
    /\ initRun = "no"
    /\ \E k \in 1..Len(bundle) : IsHook(bundle[k])
    /\ LET k == CHOOSE n \in 1..Len(bundle) : IsHook(bundle[n]) IN
       IF SelectBEMContext(bundle[k], exports, context) = NoClass
          THEN initRun' = "throw" /\ UNCHANGED protos
          ELSE initRun' = "ok" /\ protos' = RunOnInit(bundle[k], exports, context, protos)
    /\ initArgs' = <<exports, context>>
    /\ UNCHANGED <<inputs, task, srcVars, i18nVars, joinVars, calls>>

Next ==
    \/ Configure
    \/ Builder
    \/ \E i \in 1..MaxLen : SourceFileRead(i)
    \/ KeysetsRead
    \/ CompileI18NThen
    \/ JoinReject
    \/ JoinFulfill
    \/ CompileDone
    \/ \E e \in {NoClass, "ExportsBEMContext"}, c \in {NoClass, "ContextBEMContext"} : OnInit(e, c)

Spec == Init /\ [][Next]_vars

\* ------------------------------------------------------------ properties
HasCall == compilerCalls # <<>>
Rejected == srcBranch = "rejected" \/ i18nBranch = "rejected"

\* C1: with an empty file list the builder's result is exactly the placeholder
\* of the tech's mock producer, whatever the keysets file holds, and
\* _compileBEMXJST is never called.
C1_EmptyListGivesMock ==
    Len(fileList) = 0 =>
        /\ compilerCalls = <<>>
        /\ compileState = "none"
        /\ builderCalls > 0 =>
              /\ outcome = "mock" /\ phase = "done"
              /\ mockCalls = 1
              /\ bundle = (IF tech = "bemhtml" THEN <<[contents |-> Val("mockBEMHTML", 0)]>>
                           ELSE <<[contents |-> Val("mockBEMTREE", 0)]>>)

C1_Witness ==
    /\ Len(fileList) = 0 /\ outcome = "mock" /\ tech = "bemtree"
    /\ keysetsFile = Garbage

\* positions of the file list that are the first with their path
FirstIdx(list) == {i \in 1..Len(list) : \A j \in 1..(i - 1) : list[j].fullname # list[i].fullname}
\* the paths at those positions, in file-list order
FirstOccurrences(list) ==
    [r \in 1..Cardinality(FirstIdx(list)) |->
        list[CHOOSE i \in FirstIdx(list) : Cardinality({j \in FirstIdx(list) : j < i}) = r - 1].fullname]

\* C2: the sequence handed to the template compiler is the deduplicated
\* template sources in file-list order followed by the initialization entry,
\* which is the last element and occurs exactly once.
C2_SourcesThenInit ==
    \A k \in 1..Len(compilerCalls) :
        LET s == compilerCalls[k].sources
            d == FirstOccurrences(fileList)
        IN /\ Len(s) = Len(d) + 1
           /\ \A i \in 1..Len(d) : s[i] = [path |-> d[i], contents |-> Val("file", d[i])]
           /\ s[Len(s)].contents.tag = "oninit"
           /\ s[Len(s)].contents.value = i18nCode
           /\ Cardinality({i \in 1..Len(s) : s[i].contents.tag = "oninit"}) = 1
           /\ tech = "bemhtml" => compilerCalls[k].mode = "<undefined>"
           /\ tech = "bemtree" => compilerCalls[k].mode = "bemtree"

C2_Witness ==
    /\ HasCall
    /\ Len(fileList) = 3 /\ Len(compilerCalls[1].sources) = 3
    /\ fileList[1].fullname = 2 /\ fileList[2].fullname = 1

\* C3: the template compiler is called at most once, only when both branches
\* have been fulfilled; when a branch is rejected it is never called, the task
\* fails and no bundle is returned.
C3_CompileOnlyAfterBoth ==
    /\ Len(compilerCalls) <= 1
    /\ HasCall => srcBranch = "fulfilled" /\ i18nBranch = "fulfilled"
    /\ Rejected =>
          /\ compilerCalls = <<>>
          /\ bundle = NoBundle
          /\ outcome \in {"pending", "failed"}
          /\ joinState \in {"pending", "rejected"}
          /\ joinState = "rejected" => outcome = "failed" /\ phase = "done"

C3_Witness ==
    /\ outcome = "failed" /\ joinState = "rejected"
    /\ srcBranch = "fulfilled" /\ i18nBranch = "rejected"

\* C4: compileI18N is called with options exactly {version: V, language: L}
\* for the parsed version V and the task's language L, and with the parsed
\* `keysets` as its keysets argument, never with the unparsed file contents.
C4_I18NOptions ==
    /\ i18nBranch = "fulfilled" => Len(i18nCalls) = 1
    /\ \A k \in 1..Len(i18nCalls) :
          /\ i18nCalls[k].opts = [version |-> keysetsFile.version, language |-> lang]
          /\ i18nCalls[k].keysets = keysetsFile.keysets
          /\ i18nCalls[k].keysets # keysetsFile
          /\ i18nCalls[k].core # keysetsFile

C4_Witness ==
    /\ i18nCalls # <<>> /\ lang = "ru"
    /\ i18nCalls[1].opts.version = Val("version", 2)
    /\ i18nCalls[1].keysets = Val("keysets", 2)

FirstPos(list, p) == CHOOSE i \in 1..Len(list) :
    list[i].fullname = p /\ \A j \in 1..(i - 1) : list[j].fullname # p

\* C5: the file list is deduplicated by path keeping the first occurrence:
\* every path is read once, at the position of its first occurrence, and the
\* order of the remaining entries is kept.
C5_DedupKeepsFirst ==
    srcBranch # "idle" =>
        /\ \A a, b \in 1..Len(filenames) : a # b => filenames[a] # filenames[b]
        /\ \A i \in 1..Len(fileList) : \E a \in 1..Len(filenames) : filenames[a] = fileList[i].fullname
        /\ \A a \in 1..Len(filenames) : \E i \in 1..Len(fileList) : filenames[a] = fileList[i].fullname
        /\ \A a, b \in 1..Len(filenames) :
              a < b => FirstPos(fileList, filenames[a]) < FirstPos(fileList, filenames[b])
        /\ srcBranch = "fulfilled" =>
              /\ Len(srcResult) = Len(filenames)
              /\ \A a \in 1..Len(filenames) :
                    srcResult[a] = [path |-> filenames[a], contents |-> Val("file", filenames[a])]

C5_Witness ==
    /\ srcBranch = "fulfilled"
    /\ Len(fileList) = 3 /\ fileList[1].fullname = 2 /\ fileList[2].fullname = 1
    /\ fileList[3].fullname = 2
    /\ Len(srcResult) = 2

\* C6 as stated: with an empty file list the keysets file is still read
\* during the build.
C6_KeysetStillRead ==
    (Len(fileList) = 0 /\ phase = "done") => keysetReadCalls >= 1

\* C6 amended: with an empty file list the builder returns the placeholder
\* before either branch is started: the keysets file is not read and the
\* localization compiler is not called.
C6_KeysetNotReadWhenEmpty ==
    Len(fileList) = 0 =>
        /\ keysetReadCalls = 0
        /\ i18nBranch = "idle"
        /\ i18nCalls = <<>>
        /\ joinState = "none"

C6_Witness ==
    /\ Len(fileList) = 0 /\ phase = "done" /\ outcome = "mock"
    /\ keysetsFile.tag = "module"

\* C7: run with (exports, context), the initialization entry picks
\* exports.BEMContext if present and context.BEMContext otherwise, sets the
\* member i18n of that class's prototype to the compiled localization function
\* and leaves every other prototype member as it was.
C7_InitSetsOnlyI18N ==
    initRun = "ok" =>
        LET cls == IF initArgs[1] # NoClass THEN initArgs[1] ELSE initArgs[2] IN
        /\ cls \in Classes
        /\ protos[cls]["i18n"] = i18nCode
        /\ i18nCode.tag = "i18ncode"
        /\ \A c \in Classes, m \in Members :
              (c # cls \/ m # "i18n") => protos[c][m] = InitialProtos[c][m]

C7_Witness ==
    /\ initRun = "ok"
    /\ initArgs = <<"ExportsBEMContext", "ContextBEMContext">>
    /\ protos["ExportsBEMContext"]["i18n"] # Undefined

\* C8: a task without the required option `lang` fails with a missing option
\* error at configuration: the builder is never called, no file is read and
\* neither the mock producer nor the template compiler runs.
C8_MissingLangFailsEarly ==
    lang = NoLang =>
        /\ phase \in {"declared", "configError"}
        /\ phase = "configError" => outcome = "failed" /\ error = "MissingOption"
        /\ builderCalls = 0 /\ mockCalls = 0 /\ keysetReadCalls = 0
        /\ filenames = <<>> /\ reads = <<>>
        /\ srcBranch = "idle" /\ i18nBranch = "idle"
        /\ compilerCalls = <<>> /\ i18nCalls = <<>>
        /\ bundle = NoBundle

C8_Witness ==
    /\ lang = NoLang /\ phase = "configError" /\ Len(fileList) > 0

Unsettled(b) == b \in {"pending", "reading", "read"}

\* C9: both branches are started together, and the join is fail-fast: once a
\* branch is rejected the task can fail without the other branch settling, and
\* after the task has failed a later settling of the other branch changes
\* neither the outcome nor the error and never leads to a compiler call.
C9_FailFastJoin ==
    /\ []((srcBranch = "idle") <=> (i18nBranch = "idle"))
    /\ []((joinState = "pending" /\ Rejected) => ENABLED JoinReject)
    /\ [][(outcome = "failed") =>
            (outcome' = "failed" /\ error' = error /\ bundle' = bundle
             /\ compilerCalls' = compilerCalls /\ joinState' = joinState)]_vars

C9_Witness ==
    /\ outcome = "failed" /\ joinState = "rejected"
    /\ srcBranch = "rejected" /\ Unsettled(i18nBranch)

\* C10 as stated: of the parsed bundle only `version` and `keysets` reach the
\* localization compiler.
C10_OnlyVersionAndKeysets ==
    \A k \in 1..Len(i18nCalls) :
        i18nCalls[k].core \in {Undefined, keysetsFile.version, keysetsFile.keysets}

\* C10 amended: of the parsed bundle the fields `version`, `keysets` and
\* `core` are read; `core` is the first argument of the localization compiler
\* and no other field of the bundle is passed on.
C10_VersionKeysetsCore ==
    \A k \in 1..Len(i18nCalls) :
        /\ i18nCalls[k].core = keysetsFile.core
        /\ DOMAIN i18nCalls[k] = {"core", "keysets", "opts"}
        /\ DOMAIN i18nCalls[k].opts = {"version", "language"}
        /\ keysetsFile.extra \notin
              {i18nCalls[k].core, i18nCalls[k].keysets, i18nCalls[k].opts.version}

C10_Witness ==
    /\ i18nCalls # <<>>
    /\ i18nCalls[1].core = Val("core", 2)
    /\ keysetsFile.extra = Val("extra", 1)
====
